---- MODULE Spec2Model ----
(***************************************************************************)
(* Model of the Minesweeper board engine of src/main.cpp: Cell, Board      *)
(* (deferred mine placement, adjacency counts, flood-fill reveal, flags,   *)
(* win/loss queries) and the mouse handler of Game that drives the board.  *)
(***************************************************************************)
EXTENDS Integers, Sequences, FiniteSets, TLC

\* Boards of every shape with sides of at most MaxSide cells and at most
\* MaxCells cells are explored, with every legal mine count.
MaxSide == 3
MaxCells == 6

VARIABLES width, height, mineCount, firstClick, cells,
          game_over, flagCount,
          pc, minesPlaced, excluded,
          stream, target,
          board, difficulty, currentDifficulty, difficultyText,
          elapsedTime, isLoaded,
          files, saved

vars == <<width, height, mineCount, firstClick, cells,
          game_over, flagCount, pc, minesPlaced, excluded,
          stream, target,
          board, difficulty, currentDifficulty, difficultyText,
          elapsedTime, isLoaded,
          files, saved>>

\* The fields of Game and Menu next to game_over and flagCount (board is the
\* pointer, the Board it points to is boardVars), the files on disk, and the
\* session the last saveGame wrote.
gameVars == <<board, difficulty, currentDifficulty, difficultyText,
              elapsedTime, isLoaded, files, saved>>

\* The bytes written to a stream, and the Board object read from them.
streamVars == <<stream, target>>

boardVars == <<width, height, mineCount, firstClick, cells>>

----------------------------------------------------------------------------
(* Cell *)

CellState == {"Hidden", "Revealed", "Flagged"}

\* Cell::Cell()
NewCell == [state |-> "Hidden", isMine |-> FALSE, adjacentMines |-> 0]

\* Cell::reveal()
reveal(c) ==
    IF c.state = "Hidden" THEN [c EXCEPT !.state = "Revealed"] ELSE c

\* Variant of toggleFlag that takes every unflagged cell back to Hidden.
toggleFlagAny(c) ==
    IF c.state = "Hidden" THEN [c EXCEPT !.state = "Flagged"]
    ELSE [c EXCEPT !.state = "Hidden"]

\* Variant of toggleFlag that flags a Revealed cell too.
toggleFlagRevealed(c) ==
    IF c.state = "Flagged" THEN [c EXCEPT !.state = "Hidden"]
    ELSE [c EXCEPT !.state = "Flagged"]

\* Cell::toggleFlag()
toggleFlag(c) ==
    IF c.state = "Hidden" THEN [c EXCEPT !.state = "Flagged"]
    ELSE IF c.state = "Flagged" THEN [c EXCEPT !.state = "Hidden"]
    ELSE c

\* Cell::setMine(bool)
setMine(c, mine) ==
    IF mine THEN [c EXCEPT !.isMine = mine, !.adjacentMines = 0]
    ELSE [c EXCEPT !.isMine = mine]

\* Cell::incrementAdjacentMines()
CellIncrementAdjacentMines(c) ==
    IF ~c.isMine THEN [c EXCEPT !.adjacentMines = c.adjacentMines + 1] ELSE c

containsMine(c) == c.isMine
getAdjacentMines(c) == c.adjacentMines
isRevealed(c) == c.state = "Revealed"
isFlagged(c) == c.state = "Flagged"

----------------------------------------------------------------------------
(* Board *)

\* The (dx, dy) pairs in the order of the nested dy/dx loops, (0,0) skipped.
Offsets ==
    << <<-1, -1>>, <<0, -1>>, <<1, -1>>,
       <<-1, 0>>,             <<1, 0>>,
       <<-1, 1>>,  <<0, 1>>,  <<1, 1>> >>

\* Variant of InBounds with the lower bounds off by one.
InBoundsOffByOne(w, h, x, y) == x > 0 /\ x < w /\ y > 0 /\ y < h

\* The bounds test of incrementAdjacentMines.
InBounds(w, h, x, y) == x >= 0 /\ x < w /\ y >= 0 /\ y < h

\* A vector of n copies of v, indexed from 0 (std::vector resize).
RECURSIVE Vector(_, _)
Vector(n, v) == IF n = 0 THEN <<>> ELSE Vector(n - 1, v) @@ ((n - 1) :> v)

\* Board::Board(w, h, m): cells.resize(height, vector<Cell>(width))
NewCells(w, h) == Vector(h, Vector(w, NewCell))

\* Board::incrementAdjacentMines(x, y), from the k-th neighbour on.
RECURSIVE incrementAdjacentMinesFrom(_, _, _, _, _, _)
incrementAdjacentMinesFrom(cs, w, h, x, y, k) ==
    IF k > Len(Offsets) THEN cs
    ELSE LET nx == x + Offsets[k][1]
             ny == y + Offsets[k][2]
             next == IF InBounds(w, h, nx, ny)
                     THEN [cs EXCEPT ![ny][nx] = CellIncrementAdjacentMines(@)]
                     ELSE cs
         IN  incrementAdjacentMinesFrom(next, w, h, x, y, k + 1)

incrementAdjacentMines(cs, w, h, x, y) ==
    incrementAdjacentMinesFrom(cs, w, h, x, y, 1)

\* Variant of drawAccepted that forgets the excluded cell.
drawAcceptedNoExclusion(cs, w, index, excludedX, excludedY) ==
    ~containsMine(cs[index \div w][index % w])

\* Variant of drawAccepted that forgets the mine already placed.
drawAcceptedNoMineTest(cs, w, index, excludedX, excludedY) ==
    (index % w) # excludedX \/ (index \div w) # excludedY

\* The test of one draw in placeMines: the drawn cell is taken.
drawAccepted(cs, w, index, excludedX, excludedY) ==
    LET x == index % w
        y == index \div w
    IN  (x # excludedX \/ y # excludedY) /\ ~containsMine(cs[y][x])

\* The body of the if in placeMines: setMine(true), then the neighbours.
placeMineAt(cs, w, h, index) ==
    LET x == index % w
        y == index \div w
    IN  incrementAdjacentMines([cs EXCEPT ![y][x] = setMine(@, TRUE)], w, h, x, y)

\* Board::placeMines(excludedX, excludedY): the set of grids the loop can
\* return with, over every outcome of the draws.  A rejected draw leaves the
\* grid and the counter as they were, so the grids reachable from an
\* iteration are those reachable through its accepted draws.
RECURSIVE placeMines(_, _, _, _, _, _, _)
placeMines(cs, w, h, m, excludedX, excludedY, placed) ==
    IF placed < m
    THEN UNION { IF drawAccepted(cs, w, index, excludedX, excludedY)
                 THEN placeMines(placeMineAt(cs, w, h, index), w, h, m,
                                 excludedX, excludedY, placed + 1)
                 ELSE {}
                 : index \in 0..(w * h - 1) }
    ELSE {cs}

\* Board::revealCell(x, y), with its recursion over the eight neighbours.
RECURSIVE revealCell(_, _, _, _, _)
RECURSIVE revealNeighbours(_, _, _, _, _, _)
RECURSIVE revealNeighboursHalf(_, _, _, _, _, _)
RECURSIVE revealCellIgnoringFlag(_, _, _, _, _)
RECURSIVE revealCellThroughNumbers(_, _, _, _, _)

\* Variant of revealCell that does not test isFlagged.
revealCellIgnoringFlag(cs, w, h, x, y) ==
    IF x < 0 \/ x >= w \/ y < 0 \/ y >= h THEN cs
    ELSE IF ~isRevealed(cs[y][x])
         THEN LET cs1 == [cs EXCEPT ![y][x] = reveal(@)]
              IN  IF getAdjacentMines(cs1[y][x]) = 0 /\ ~containsMine(cs1[y][x])
                  THEN revealNeighbours(cs1, w, h, x, y, 1)
                  ELSE cs1
         ELSE cs

\* Variant of revealCell that runs the neighbour loops of every cell that
\* is no mine, whatever its adjacentMines.
revealCellThroughNumbers(cs, w, h, x, y) ==
    IF x < 0 \/ x >= w \/ y < 0 \/ y >= h THEN cs
    ELSE IF ~isRevealed(cs[y][x]) /\ ~isFlagged(cs[y][x])
         THEN LET cs1 == [cs EXCEPT ![y][x] = reveal(@)]
              IN  IF ~containsMine(cs1[y][x])
                  THEN revealNeighbours(cs1, w, h, x, y, 1)
                  ELSE cs1
         ELSE cs

revealCell(cs, w, h, x, y) ==
    IF x < 0 \/ x >= w \/ y < 0 \/ y >= h THEN cs
    ELSE IF ~isRevealed(cs[y][x]) /\ ~isFlagged(cs[y][x])
         THEN LET cs1 == [cs EXCEPT ![y][x] = reveal(@)]
              IN  IF getAdjacentMines(cs1[y][x]) = 0 /\ ~containsMine(cs1[y][x])
                  THEN revealNeighbours(cs1, w, h, x, y, 1)
                  ELSE cs1
         ELSE cs

\* Variant of revealNeighbours whose loops stop after four neighbours.
revealNeighboursHalf(cs, w, h, x, y, k) ==
    IF k > 4 THEN cs
    ELSE LET next == revealCell(cs, w, h,
                                x + Offsets[k][1], y + Offsets[k][2])
         IN  IF next = cs
             THEN revealNeighboursHalf(cs, w, h, x, y, k + 1)
             ELSE revealNeighboursHalf(next, w, h, x, y, k + 1)

\* The neighbour loops of revealCell, from the k-th neighbour on.  Each call
\* returns before the loop goes on: the grid it leaves is computed (by the
\* comparison) before the next neighbour is visited.
revealNeighbours(cs, w, h, x, y, k) ==
    IF k > Len(Offsets) THEN cs
    ELSE LET next == revealCell(cs, w, h,
                                x + Offsets[k][1], y + Offsets[k][2])
         IN  IF next = cs
             THEN revealNeighbours(cs, w, h, x, y, k + 1)
             ELSE revealNeighbours(next, w, h, x, y, k + 1)

\* Board::revealCell(x, y) with a record of what the call and the calls it
\* makes do: the grid, the cells that went from Hidden to Revealed in order,
\* the cells whose neighbour loops ran in order, and the number of calls.
RECURSIVE revealCellTrace(_, _, _, _, _)
RECURSIVE revealNeighboursTrace(_, _, _, _, _, _)

revealCellTrace(tr, w, h, x, y) ==
    LET cs == tr.cells
        calls == tr.calls + 1
    IN  IF x < 0 \/ x >= w \/ y < 0 \/ y >= h
        THEN [cells |-> cs, revealed |-> tr.revealed,
              expanded |-> tr.expanded, calls |-> calls]
        ELSE IF ~isRevealed(cs[y][x]) /\ ~isFlagged(cs[y][x])
        THEN LET cs1 == [cs EXCEPT ![y][x] = reveal(@)]
                 log == IF cs1[y][x].state # cs[y][x].state
                        THEN Append(tr.revealed, <<x, y>>)
                        ELSE tr.revealed
             IN  IF getAdjacentMines(cs1[y][x]) = 0 /\ ~containsMine(cs1[y][x])
                 THEN revealNeighboursTrace(
                          [cells |-> cs1, revealed |-> log,
                           expanded |-> Append(tr.expanded, <<x, y>>),
                           calls |-> calls],
                          w, h, x, y, 1)
                 ELSE [cells |-> cs1, revealed |-> log,
                       expanded |-> tr.expanded, calls |-> calls]
        ELSE [cells |-> cs, revealed |-> tr.revealed,
              expanded |-> tr.expanded, calls |-> calls]

revealNeighboursTrace(tr, w, h, x, y, k) ==
    IF k > Len(Offsets) THEN tr
    ELSE LET next == revealCellTrace(tr, w, h,
                                     x + Offsets[k][1], y + Offsets[k][2])
         IN  IF next.calls = tr.calls
             THEN tr
             ELSE revealNeighboursTrace(next, w, h, x, y, k + 1)

\* The record of one revealCell(x, y) call on the grid cs.
revealCellCall(cs, w, h, x, y) ==
    revealCellTrace([cells |-> cs, revealed |-> <<>>, expanded |-> <<>>,
                     calls |-> 0], w, h, x, y)

\* Board::flagCell(x, y)
flagCell(cs, w, h, x, y) ==
    IF x < 0 \/ x >= w \/ y < 0 \/ y >= h THEN cs
    ELSE [cs EXCEPT ![y][x] = toggleFlag(@)]

\* The i-th cell (from 0) in the order of the nested row/cell loops.
CellAt(cs, w, i) == cs[i \div w][i % w]

\* Variant of checkWinFrom that wants the mines revealed too.
RECURSIVE checkWinFromNoMineTest(_, _, _, _)
checkWinFromNoMineTest(cs, w, h, i) ==
    IF i >= w * h THEN TRUE
    ELSE IF ~isRevealed(CellAt(cs, w, i)) THEN FALSE
         ELSE checkWinFromNoMineTest(cs, w, h, i + 1)

\* Board::checkWinCondition(): the scan returns false at the first
\* non-mine cell that is not revealed.
RECURSIVE checkWinFrom(_, _, _, _)
checkWinFrom(cs, w, h, i) ==
    IF i >= w * h THEN TRUE
    ELSE IF ~containsMine(CellAt(cs, w, i)) /\ ~isRevealed(CellAt(cs, w, i))
         THEN FALSE
         ELSE checkWinFrom(cs, w, h, i + 1)

checkWinCondition(cs, w, h) == checkWinFrom(cs, w, h, 0)

\* Variant of checkLossFrom that returns after looking at one cell.
checkLossFromFirstCell(cs, w, h, i) ==
    IF i >= w * h THEN FALSE
    ELSE containsMine(CellAt(cs, w, i)) /\ isRevealed(CellAt(cs, w, i))

\* Board::checkLossCondition(): the scan returns true at the first
\* revealed mine.
RECURSIVE checkLossFrom(_, _, _, _)
checkLossFrom(cs, w, h, i) ==
    IF i >= w * h THEN FALSE
    ELSE IF containsMine(CellAt(cs, w, i)) /\ isRevealed(CellAt(cs, w, i))
         THEN TRUE
         ELSE checkLossFrom(cs, w, h, i + 1)

checkLossCondition(cs, w, h) == checkLossFrom(cs, w, h, 0)

\* Board::countFlaggedCells()
RECURSIVE countFlaggedFrom(_, _, _, _)
countFlaggedFrom(cs, w, h, i) ==
    IF i >= w * h THEN 0
    ELSE (IF isFlagged(CellAt(cs, w, i)) THEN 1 ELSE 0)
             + countFlaggedFrom(cs, w, h, i + 1)

countFlaggedCells(cs, w, h) == countFlaggedFrom(cs, w, h, 0)

----------------------------------------------------------------------------
(* Binary streams: Cell::serialize/deserialize, Board::serialize/deserialize *)

\* sizeof(int) and sizeof(CellState) (an enum class over int), sizeof(bool).
SizeofInt == 4
SizeofBool == 1

\* The object representation of an integer in n bytes, least significant
\* byte first, negative values in two's complement.
RECURSIVE LittleEndian(_, _)
LittleEndian(v, n) ==
    IF n = 0 THEN <<>> ELSE <<v % 256>> \o LittleEndian(v \div 256, n - 1)

IntBytes(v) == LittleEndian(v, SizeofInt)

BoolBytes(b) == <<IF b THEN 1 ELSE 0>>

\* The value of the bytes bs read as an unsigned number.
RECURSIVE Unsigned(_)
Unsigned(bs) ==
    IF bs = <<>> THEN 0 ELSE Head(bs) + 256 * Unsigned(Tail(bs))

\* The int whose object representation is bs.
BytesInt(bs) ==
    IF bs[Len(bs)] < 128 THEN Unsigned(bs)
    ELSE -Unsigned([i \in 1..Len(bs) |-> 255 - bs[i]]) - 1

\* The bool whose object representation is bs; a byte other than 0 and 1 is
\* no value of a bool.
BytesBool(bs) ==
    IF bs[1] = 0 THEN FALSE ELSE IF bs[1] = 1 THEN TRUE ELSE "indeterminate"

\* CellState as the int under the enum class, and back.
StateCode(st) ==
    CASE st = "Hidden" -> 0 [] st = "Revealed" -> 1 [] st = "Flagged" -> 2

CodeState(n) ==
    CASE n = 0 -> "Hidden" [] n = 1 -> "Revealed" [] n = 2 -> "Flagged"
      [] OTHER -> "invalid"

\* An input stream over the bytes bs, positioned at its start.
IStream(bs) == [bytes |-> bs, pos |-> 0, fail |-> FALSE]

\* std::istream::read of n bytes into an object whose bytes are old: the
\* bytes read and the stream after.  A failed stream reads nothing; a short
\* read stores the bytes that are left and sets failbit.
istreamRead(is, n, old) ==
    LET left == Len(is.bytes) - is.pos
    IN  IF is.fail THEN [value |-> old, is |-> is]
        ELSE IF left >= n
        THEN [value |-> SubSeq(is.bytes, is.pos + 1, is.pos + n),
              is |-> [is EXCEPT !.pos = @ + n]]
        ELSE [value |-> SubSeq(is.bytes, is.pos + 1, is.pos + left)
                            \o SubSeq(old, left + 1, n),
              is |-> [is EXCEPT !.pos = @ + left, !.fail = TRUE]]

\* Cell::serialize(os): the bytes written.
CellSerialize(c) ==
    IntBytes(StateCode(c.state)) \o BoolBytes(c.isMine)
        \o IntBytes(c.adjacentMines)

\* Cell::deserialize(is): the cell and the stream after.
CellDeserialize(c, is) ==
    LET r1 == istreamRead(is, SizeofInt, IntBytes(StateCode(c.state)))
        r2 == istreamRead(r1.is, SizeofBool, BoolBytes(c.isMine))
        r3 == istreamRead(r2.is, SizeofInt, IntBytes(c.adjacentMines))
    IN  [cell |-> [state |-> CodeState(BytesInt(r1.value)),
                   isMine |-> BytesBool(r2.value),
                   adjacentMines |-> BytesInt(r3.value)],
         is |-> r3.is]

\* size() of a vector.
Size(v) == Cardinality(DOMAIN v)

\* std::vector::resize(n, proto) with n >= 0: the first n elements are
\* kept, and copies of proto are appended up to n elements.
RECURSIVE resize(_, _, _)
resize(v, n, proto) ==
    IF n = 0 THEN <<>>
    ELSE resize(v, n - 1, proto)
             @@ ((n - 1) :> (IF n - 1 < Size(v) THEN v[n - 1] ELSE proto))

\* A Board object.
BoardObject(w, h, m, first, cs) ==
    [width |-> w, height |-> h, mineCount |-> m, firstClick |-> first,
     cells |-> cs]

\* The loops of Board::serialize over the rows of cells and the cells of
\* each row, from row r, cell c on.
RECURSIVE serializeCells(_, _, _)
serializeCells(cs, r, c) ==
    IF r >= Size(cs) THEN <<>>
    ELSE IF c >= Size(cs[r]) THEN serializeCells(cs, r + 1, 0)
    ELSE CellSerialize(cs[r][c]) \o serializeCells(cs, r, c + 1)

\* Board::serialize(os): the bytes written.
BoardSerialize(b) ==
    IntBytes(b.width) \o IntBytes(b.height) \o IntBytes(b.mineCount)
        \o BoolBytes(b.firstClick) \o serializeCells(b.cells, 0, 0)

\* The loops of Board::deserialize over the rows of cells and the cells of
\* each row, from row r, cell c on.
RECURSIVE deserializeCells(_, _, _, _)
deserializeCells(cs, is, r, c) ==
    IF r >= Size(cs) THEN [cells |-> cs, is |-> is]
    ELSE IF c >= Size(cs[r]) THEN deserializeCells(cs, is, r + 1, 0)
    ELSE LET d == CellDeserialize(cs[r][c], is)
         IN  deserializeCells([cs EXCEPT ![r][c] = d.cell], d.is, r, c + 1)

\* Board::deserialize(is) called on the object b, with the dimensions read
\* not negative: the object after.
BoardDeserialize(b, is) ==
    LET r1 == istreamRead(is, SizeofInt, IntBytes(b.width))
        r2 == istreamRead(r1.is, SizeofInt, IntBytes(b.height))
        r3 == istreamRead(r2.is, SizeofInt, IntBytes(b.mineCount))
        r4 == istreamRead(r3.is, SizeofBool, BoolBytes(b.firstClick))
        w == BytesInt(r1.value)
        h == BytesInt(r2.value)
        resized == resize(b.cells, h, resize(<<>>, w, NewCell))
    IN  BoardObject(w, h, BytesInt(r3.value), BytesBool(r4.value),
                    deserializeCells(resized, r4.is, 0, 0).cells)

----------------------------------------------------------------------------
(* The JSON text Game::saveGame writes *)

\* The printable ASCII characters, from code 32 on.
Printable ==
    << " ", "!", "\"", "#", "$", "%", "&", "'", "(", ")", "*", "+", ",", "-",
       ".", "/", "0", "1", "2", "3", "4", "5", "6", "7", "8", "9", ":", ";",
       "<", "=", ">", "?", "@", "A", "B", "C", "D", "E", "F", "G", "H", "I",
       "J", "K", "L", "M", "N", "O", "P", "Q", "R", "S", "T", "U", "V", "W",
       "X", "Y", "Z", "[", "\\", "]", "^", "_", "grave", "a", "b", "c", "d", "e",
       "f", "g", "h", "i", "j", "k", "l", "m", "n", "o", "p", "q", "r", "s",
       "t", "u", "v", "w", "x", "y", "z", "{", "|", "}", "~" >>

\* The byte of a character of a text file.
Ascii(c) ==
    IF c = "\n" THEN 10
    ELSE 31 + (CHOOSE i \in 1..Len(Printable) : Printable[i] = c)

\* The bytes of a text given character by character.
Text(t) == [i \in 1..Len(t) |-> Ascii(t[i])]

\* An integer in decimal, as operator<< of the json library writes it.
RECURSIVE Digits(_)
Digits(n) ==
    IF n < 10 THEN <<48 + n>> ELSE Digits(n \div 10) \o <<48 + (n % 10)>>

Decimal(n) == IF n < 0 THEN Text(<<"-">>) \o Digits(-n) ELSE Digits(n)

JsonBool(b) ==
    IF b THEN Text(<<"t", "r", "u", "e">>)
    ELSE Text(<<"f", "a", "l", "s", "e">>)

\* The values of elapsedTime explored: the bytes of the float and the text
\* the json library writes for it (0.0f and 1.5f).
ElapsedTimes ==
    { [bytes |-> <<0, 0, 0, 0>>, text |-> Text(<<"0", ".", "0">>)],
      [bytes |-> <<0, 0, 192, 63>>, text |-> Text(<<"1", ".", "5">>)] }

\* n spaces of indentation.
Indent(n) == [i \in 1..n |-> 32]

\* "key": at the indentation n; the library keeps the keys of an object in
\* alphabetical order.
JsonKey(n, key) ==
    Indent(n) \o Text(<<"\"">>) \o Text(key) \o Text(<<"\"", ":", " ">>)

KeyAdjacentMines ==
    JsonKey(8, <<"a", "d", "j", "a", "c", "e", "n", "t", "M", "i", "n", "e", "s">>)
KeyIsMine == JsonKey(8, <<"i", "s", "M", "i", "n", "e">>)
KeyState == JsonKey(8, <<"s", "t", "a", "t", "e">>)
KeyCells == JsonKey(4, <<"c", "e", "l", "l", "s">>)
KeyFirstClick == JsonKey(4, <<"f", "i", "r", "s", "t", "C", "l", "i", "c", "k">>)
KeyHeight == JsonKey(4, <<"h", "e", "i", "g", "h", "t">>)
KeyMineCount == JsonKey(4, <<"m", "i", "n", "e", "C", "o", "u", "n", "t">>)
KeyWidth == JsonKey(4, <<"w", "i", "d", "t", "h">>)
KeyBoard == JsonKey(2, <<"b", "o", "a", "r", "d">>)
KeyDifficulty == JsonKey(2, <<"d", "i", "f", "f", "i", "c", "u", "l", "t", "y">>)
KeyElapsedTime ==
    JsonKey(2, <<"e", "l", "a", "p", "s", "e", "d", "T", "i", "m", "e">>)
KeyFlagCount == JsonKey(2, <<"f", "l", "a", "g", "C", "o", "u", "n", "t">>)

Comma == Text(<<",", "\n">>)
Newline == Text(<<"\n">>)

\* jsonCell of saveGame, written as an element of the cells array.
JsonCell(c) ==
    Indent(6) \o Text(<<"{", "\n">>)
        \o KeyAdjacentMines \o Decimal(c.adjacentMines) \o Comma
        \o KeyIsMine \o JsonBool(c.isMine) \o Comma
        \o KeyState \o Decimal(StateCode(c.state)) \o Newline
        \o Indent(6) \o Text(<<"}">>)

\* The elements of jsonCells: the loops of saveGame over the rows of cells
\* and the cells of each row, from row r, cell c on.
RECURSIVE JsonCellsFrom(_, _, _)
JsonCellsFrom(cs, r, c) ==
    IF r >= Size(cs) THEN <<>>
    ELSE IF c >= Size(cs[r]) THEN JsonCellsFrom(cs, r + 1, 0)
    ELSE LET rest == JsonCellsFrom(cs, r, c + 1)
         IN  JsonCell(cs[r][c])
                 \o (IF rest = <<>> THEN Newline ELSE Comma) \o rest

\* jsonCells: an empty array is written [].
JsonCells(cs) ==
    LET elements == JsonCellsFrom(cs, 0, 0)
    IN  IF elements = <<>> THEN Text(<<"[", "]">>)
        ELSE Text(<<"[", "\n">>) \o elements \o Indent(4) \o Text(<<"]">>)

\* jsonBoard of saveGame, written as a member of jsonGame.
JsonBoard(b) ==
    Text(<<"{", "\n">>)
        \o KeyCells \o JsonCells(b.cells) \o Comma
        \o KeyFirstClick \o JsonBool(b.firstClick) \o Comma
        \o KeyHeight \o Decimal(b.height) \o Comma
        \o KeyMineCount \o Decimal(b.mineCount) \o Comma
        \o KeyWidth \o Decimal(b.width) \o Newline
        \o Indent(2) \o Text(<<"}">>)

\* file << std::setw(2) << jsonGame << std::endl
JsonGame(elapsed, flags, diff, b) ==
    Text(<<"{", "\n">>)
        \o KeyBoard \o JsonBoard(b) \o Comma
        \o KeyDifficulty \o Decimal(diff) \o Comma
        \o KeyElapsedTime \o elapsed.text \o Comma
        \o KeyFlagCount \o Decimal(flags) \o Newline
        \o Text(<<"}", "\n">>)

----------------------------------------------------------------------------
(* The boards explored, and the outcomes of placeMines on each *)

\* Board(w, h, m) with positive dimensions and 0 < m < w * h.
BoardSizes ==
    { d \in (1..MaxSide) \X (1..MaxSide) \X (1..MaxCells) :
        d[1] * d[2] <= MaxCells /\ d[3] < d[1] * d[2] }

\* The coordinates a caller passes: every cell, and coordinates that fail
\* each of the four bounds tests alone and two of them together.
Coords(w, h) ==
    ((0..(w - 1)) \X (0..(h - 1)))
        \cup { <<-1, 0>>, <<w, 0>>, <<0, -1>>, <<0, h>>, <<-1, -1>>, <<w, h>> }

PlaceKeys ==
    UNION { { <<d[1], d[2], d[3], p[1], p[2]>> : p \in Coords(d[1], d[2]) } :
              d \in BoardSizes }

\* placeMines on the grid of a new board, tabulated once per board size and
\* excluded coordinate.
PlaceMinesTable ==
    [k \in PlaceKeys |->
        placeMines(NewCells(k[1], k[2]), k[1], k[2], k[3], k[4], k[5], 0)]

NoMinePlaced(cs, w, h) ==
    \A y \in 0..(h - 1), x \in 0..(w - 1) :
        ~cs[y][x].isMine /\ cs[y][x].adjacentMines = 0

\* placeMines called on the grid cs.  Placement reads and writes isMine and
\* adjacentMines only (setMine, incrementAdjacentMines), never Cell::state, so
\* on a grid without mines its outcomes are the tabulated ones with the states
\* of cs kept.
placeMinesOn(cs, w, h, m, excludedX, excludedY) ==
    IF NoMinePlaced(cs, w, h) /\ <<w, h, m, excludedX, excludedY>> \in PlaceKeys
    THEN LET outcomes == PlaceMinesTable[<<w, h, m, excludedX, excludedY>>]
         IN  { [y \in 0..(h - 1) |-> [x \in 0..(w - 1) |->
                   [state |-> cs[y][x].state,
                    isMine |-> g[y][x].isMine,
                    adjacentMines |-> g[y][x].adjacentMines]]] : g \in outcomes }
    ELSE placeMines(cs, w, h, m, excludedX, excludedY, 0)

----------------------------------------------------------------------------
(* Game: difficulties, files, sessions *)

\* Difficulty as the int under the enum class: Easy = 1, Medium, Hard.
Easy == 1
Medium == 2
Hard == 3

\* Menu::difficultyOptions
difficultyOptions == <<"Easy", "Medium", "Hard">>

\* The difficulty whose board Board(d) stands for: the boards of setupBoard
\* (10x8 with 10 mines, 16x16 with 40, 24x20 with 99) scaled to the boards
\* explored, one mine for Easy, two for Medium, more for Hard.
DifficultyOf(d) ==
    IF d[3] = 1 THEN Easy ELSE IF d[3] = 2 THEN Medium ELSE Hard

\* The width, height and mines of each case of the switch in setupBoard,
\* scaled to the boards explored.
EasyBoard == <<2, 2, 1>>
MediumBoard == <<3, 2, 2>>
HardBoard == <<3, 2, 3>>

\* sizeof(float)
SizeofFloat == 4

\* The bytes of 0.0f.
FloatZero == <<0, 0, 0, 0>>

\* A file that does not exist, an empty file, a file with the bytes bs;
\* json says whether the json library parses the bytes as a document.
NoFile == [exists |-> FALSE, json |-> FALSE, bytes |-> <<>>]
EmptyFile == [exists |-> TRUE, json |-> FALSE, bytes |-> <<>>]
JsonFile(bs) == [exists |-> TRUE, json |-> TRUE, bytes |-> bs]
BinaryFile(bs) == [exists |-> TRUE, json |-> FALSE, bytes |-> bs]

FileNames == {"save.json", "savegame.bin"}

NoFiles == [n \in FileNames |-> NoFile]

\* The session of a Game: what saveGame persists.
Session(elapsed, flags, diff, b) ==
    [elapsedTime |-> elapsed, flagCount |-> flags, difficulty |-> diff,
     board |-> b]

\* No saveGame has written a file.
NoSave ==
    [written |-> FALSE,
     session |-> Session(FloatZero, 0, 0, BoardObject(0, 0, 0, TRUE, <<>>))]

----------------------------------------------------------------------------
(* State machine *)

\* The board as a Board object.
TheBoard == BoardObject(width, height, mineCount, firstClick, cells)

\* A new board (Board::Board) of one of the sizes ds, in a started game
\* (Game::startGame).
NewBoard(ds) ==
    /\ \E d \in ds :
          /\ width = d[1]
          /\ height = d[2]
          /\ mineCount = d[3]
          /\ cells = NewCells(d[1], d[2])
    /\ firstClick = TRUE
    /\ game_over = FALSE
    /\ flagCount = 0
    /\ pc = "idle"
    /\ minesPlaced = 0
    /\ excluded = <<0, 0>>
    /\ stream = <<>>
    /\ target = BoardObject(0, 0, 0, TRUE, <<>>)
    /\ board = "object"
    /\ difficulty = DifficultyOf(<<width, height, mineCount>>)
    /\ currentDifficulty = difficulty
    /\ difficultyText = "Easy"
    /\ elapsedTime = FloatZero
    /\ isLoaded = FALSE
    /\ files = NoFiles
    /\ saved = NoSave

Init == NewBoard(BoardSizes)

\* Variant of firstReveal that places mines whatever firstClick says.
firstRevealUngated(cs, w, h, m, first, x, y) ==
    { revealCell(placed, w, h, x, y) :
        placed \in placeMinesOn(cs, w, h, m, x, y) }

\* The grids Board::firstReveal(x, y) can leave.
firstReveal(cs, w, h, m, first, x, y) ==
    IF first
    THEN { revealCell(placed, w, h, x, y) :
             placed \in placeMinesOn(cs, w, h, m, x, y) }
    ELSE { revealCell(cs, w, h, x, y) }

\* Board::firstReveal(x, y) called on the board.
FirstReveal(x, y) ==
    /\ pc = "idle"
    /\ cells' \in firstReveal(cells, width, height, mineCount, firstClick, x, y)
    /\ firstClick' = FALSE
    /\ UNCHANGED <<width, height, mineCount, game_over, flagCount,
                   pc, minesPlaced, excluded, streamVars, gameVars>>

\* Board::revealCell(x, y) called on the board.
RevealCell(x, y) ==
    /\ pc = "idle"
    /\ cells' = revealCell(cells, width, height, x, y)
    /\ UNCHANGED <<width, height, mineCount, firstClick, game_over, flagCount,
                   pc, minesPlaced, excluded, streamVars, gameVars>>

\* Board::flagCell(x, y) called on the board.
FlagCell(x, y) ==
    /\ pc = "idle"
    /\ cells' = flagCell(cells, width, height, x, y)
    /\ UNCHANGED <<width, height, mineCount, firstClick, game_over, flagCount,
                   pc, minesPlaced, excluded, streamVars, gameVars>>

Next ==
    \/ \E p \in Coords(width, height) : FirstReveal(p[1], p[2])
    \/ \E p \in Coords(width, height) : RevealCell(p[1], p[2])
    \/ \E p \in Coords(width, height) : FlagCell(p[1], p[2])

\* The board driven through its three commands in any order.
Spec == Init /\ [][Next]_vars

----------------------------------------------------------------------------
(* The board driven by Game::handleEvent / Game::handleMouseInput *)

\* Game::checkGameState() and Game::endGame(): the value of game_over after.
\* Variant of checkGameState that never ends the game.
checkGameStateNever(cs, w, h, over) == over

\* Variant of checkGameState that does not test the win condition.
checkGameStateLossOnly(cs, w, h, over) ==
    IF checkLossCondition(cs, w, h) THEN TRUE ELSE over

checkGameState(cs, w, h, over) ==
    IF checkWinCondition(cs, w, h) THEN TRUE
    ELSE IF checkLossCondition(cs, w, h) THEN TRUE
    ELSE over

\* A mouse press while a game is running, with the button and the board
\* coordinates convertToBoardCoordinates computed.  A first reveal whose
\* placeMines cannot place mineCount mines does not return: the loop runs
\* for ever, or, on a board without cells, draws from an empty range.
handleMouseInput(button, x, y) ==
    /\ pc = "idle"
    /\ ~game_over
    /\ IF board # "object"
       THEN UNCHANGED <<cells, firstClick, flagCount, game_over, pc>>
       ELSE IF /\ button = "Left"
               /\ firstClick
               /\ firstReveal(cells, width, height, mineCount,
                              firstClick, x, y) = {}
       THEN /\ pc' = IF width * height = 0 THEN "crashed" ELSE "hung"
            /\ UNCHANGED <<cells, firstClick, flagCount, game_over>>
       ELSE /\ IF button = "Left" /\ firstClick
               THEN /\ cells' \in firstReveal(cells, width, height, mineCount,
                                              firstClick, x, y)
                    /\ firstClick' = FALSE
                    /\ flagCount' = countFlaggedCells(cells', width, height)
               ELSE IF button = "Left"
               THEN /\ cells' = revealCell(cells, width, height, x, y)
                    /\ firstClick' = firstClick
                    /\ flagCount' = countFlaggedCells(cells', width, height)
               ELSE IF button = "Right"
               THEN /\ cells' = flagCell(cells, width, height, x, y)
                    /\ firstClick' = firstClick
                    /\ flagCount' = countFlaggedCells(cells', width, height)
               ELSE UNCHANGED <<cells, firstClick, flagCount>>
            /\ game_over' = checkGameState(cells', width, height, game_over)
            /\ pc' = pc
    /\ UNCHANGED <<width, height, mineCount, minesPlaced, excluded,
                   streamVars, gameVars>>

Buttons == {"Left", "Right", "Middle"}

NextInput ==
    \E button \in Buttons, p \in Coords(width, height) :
        handleMouseInput(button, p[1], p[2])

SpecInput == Init /\ [][NextInput]_vars

----------------------------------------------------------------------------
(* The program: main, Game::run, the menu, the window's events *)

\* The values an int that was never assigned, or that a failed read left as
\* it was, can hold.
IndeterminateInts == -1..2

\* The number of Cells the process can allocate.
MemoryCells == 2^30

\* Board::Board(w, h, m) throws: std::length_error for a negative size,
\* std::bad_alloc for a grid beyond the memory of the process.  It tests
\* nothing else.
BoardThrows(w, h) ==
    w < 0 \/ h < 0 \/ (w > 0 /\ h >= MemoryCells \div w)

\* The value read into an int: the bytes read when the read was whole, and
\* an indeterminate value when it was not and the int had none before.
IntRead(r) ==
    IF r.is.fail THEN IndeterminateInts ELSE {BytesInt(r.value)}

\* The fields the constructor Game() sets, with no Board behind board.
GameConstructed ==
    /\ board' = "nullptr"
    /\ game_over' = TRUE
    /\ flagCount' = 0
    /\ isLoaded' = FALSE
    /\ currentDifficulty' = Easy
    /\ difficultyText' = "Easy"
    /\ width' = 0
    /\ height' = 0
    /\ mineCount' = 0
    /\ firstClick' = TRUE
    /\ cells' = <<>>

\* Game::loadGame(filename) in the Game just constructed, on the file
\* named.  The json library throws a parse error on a stream that is not
\* open or holds no JSON document, and nothing catches it; once the parse
\* has succeeded the file exists, and the second stream opens.
loadGame(file) ==
    IF ~file.exists \/ ~file.json
    THEN /\ GameConstructed
         /\ elapsedTime' = FloatZero
         /\ difficulty' = 0
         /\ pc' = "terminated"
    ELSE LET r1 == istreamRead(IStream(file.bytes), SizeofFloat, FloatZero)
             r2 == istreamRead(r1.is, SizeofInt, IntBytes(0))
             r3 == istreamRead(r2.is, SizeofInt, IntBytes(0))
             r4 == istreamRead(r3.is, SizeofInt, IntBytes(0))
             r5 == istreamRead(r4.is, SizeofInt, IntBytes(0))
             r6 == istreamRead(r5.is, SizeofInt, IntBytes(0))
             r7 == istreamRead(r6.is, SizeofBool, BoolBytes(FALSE))
         IN  \E diff \in IntRead(r3), w \in IntRead(r4), h \in IntRead(r5),
                m \in IntRead(r6) :
                 /\ elapsedTime' = r1.value
                 /\ flagCount' = BytesInt(r2.value)
                 /\ difficulty' = diff
                 /\ game_over' = FALSE
                 /\ currentDifficulty' = Easy
                 /\ difficultyText' = "Easy"
                 /\ IF BoardThrows(w, h)
                    THEN /\ board' = "nullptr"
                         /\ width' = 0
                         /\ height' = 0
                         /\ mineCount' = 0
                         /\ firstClick' = TRUE
                         /\ cells' = <<>>
                         /\ isLoaded' = FALSE
                         /\ pc' = "terminated"
                    ELSE LET b == BoardDeserialize(
                                      BoardObject(w, h, m, TRUE, NewCells(w, h)),
                                      r7.is)
                         IN  /\ board' = "object"
                             /\ width' = b.width
                             /\ height' = b.height
                             /\ mineCount' = b.mineCount
                             /\ firstClick' = b.firstClick
                             /\ cells' = b.cells
                             /\ isLoaded' = TRUE
                             /\ pc' = "idle"

\* main(): Game minesweeper; minesweeper.run() up to its event loop.
Main ==
    /\ pc = "exited"
    /\ IF files["savegame.bin"].exists
       THEN loadGame(files["save.json"])
       ELSE /\ GameConstructed
            /\ elapsedTime' = FloatZero
            /\ difficulty' = 0
            /\ pc' = "idle"
    /\ UNCHANGED <<minesPlaced, excluded, streamVars, files, saved>>

\* The width, height and mines setupBoard passes to Board::Board: the board
\* of the difficulty, and indeterminate values when no case of the switch
\* matches.
setupBoard(chosen) ==
    CASE chosen = Easy -> {EasyBoard}
      [] chosen = Medium -> {MediumBoard}
      [] chosen = Hard -> {HardBoard}
      [] OTHER -> IndeterminateInts \X IndeterminateInts \X IndeterminateInts

\* Game::startGame(chosenDifficulty).  setupBoard divides by width and by
\* height before it constructs the Board.
startGame(chosen) ==
    /\ difficulty' = chosen
    /\ \E d \in setupBoard(chosen) :
          IF d[1] = 0 \/ d[2] = 0
          THEN /\ pc' = "crashed"
               /\ UNCHANGED <<boardVars, board, game_over, flagCount,
                              elapsedTime>>
          ELSE IF BoardThrows(d[1], d[2])
          THEN /\ pc' = "terminated"
               /\ board' = "deleted"
               /\ UNCHANGED <<boardVars, game_over, flagCount, elapsedTime>>
          ELSE /\ board' = "object"
               /\ width' = d[1]
               /\ height' = d[2]
               /\ mineCount' = d[3]
               /\ firstClick' = TRUE
               /\ cells' = NewCells(d[1], d[2])
               /\ game_over' = FALSE
               /\ flagCount' = 0
               /\ elapsedTime' = FloatZero
               /\ pc' = pc

\* Menu::changeDifficulty(change): the new currentDifficulty.
changeDifficulty(current, change) ==
    LET difficultyIndex == current + change
    IN  IF difficultyIndex >= Len(difficultyOptions) THEN 0
        ELSE IF difficultyIndex < 0 THEN Len(difficultyOptions) - 1
        ELSE difficultyIndex

\* Menu::changeDifficulty(change): the option the label is set to.
changeDifficultyText(current, change) ==
    difficultyOptions[changeDifficulty(current, change) + 1]

Keys == {"Up", "Down", "Enter"}

\* A KeyPressed event: handleEvent passes it to Menu::handleInput while
\* game_over is true.
KeyPressed(key) ==
    /\ pc = "idle"
    /\ game_over
    /\ IF key = "Enter"
       THEN /\ startGame(currentDifficulty)
            /\ UNCHANGED <<currentDifficulty, difficultyText>>
       ELSE /\ currentDifficulty' =
                   changeDifficulty(currentDifficulty,
                                    IF key = "Up" THEN -1 ELSE 1)
            /\ difficultyText' =
                   changeDifficultyText(currentDifficulty,
                                        IF key = "Up" THEN -1 ELSE 1)
            /\ UNCHANGED <<boardVars, board, game_over, flagCount,
                           elapsedTime, difficulty, pc>>
    /\ UNCHANGED <<minesPlaced, excluded, streamVars, isLoaded, files, saved>>

\* A Closed event, with elapsedTime as update() left it in the frames
\* before: handleEvent calls saveGame("save.json"), run calls
\* saveGame("savegame.bin"), and main returns (the destructor saves to
\* savegame.bin once more when isLoaded).  saveGame opens the file and then
\* reads the Board through board, whatever board is.
Closed(elapsed) ==
    /\ pc = "idle"
    /\ IF board # "object"
       THEN /\ files' = [files EXCEPT !["save.json"] = EmptyFile]
            /\ pc' = "crashed"
            /\ UNCHANGED <<elapsedTime, saved>>
       ELSE LET text == JsonGame(elapsed, flagCount, difficulty, TheBoard)
            IN  /\ elapsedTime' = elapsed.bytes
                /\ files' = [n \in FileNames |-> JsonFile(text)]
                /\ saved' = [written |-> TRUE,
                             session |-> Session(elapsed.bytes, flagCount,
                                                 difficulty, TheBoard)]
                /\ pc' = "exited"
    /\ UNCHANGED <<boardVars, game_over, flagCount, minesPlaced, excluded,
                   streamVars, board, difficulty, currentDifficulty,
                   difficultyText, isLoaded>>

\* The bytes loadGame and Board::deserialize read, field by field, for a
\* session.
BinarySave(s) ==
    s.elapsedTime \o IntBytes(s.flagCount) \o IntBytes(s.difficulty)
        \o IntBytes(s.board.width) \o IntBytes(s.board.height)
        \o IntBytes(s.board.mineCount) \o BoolBytes(s.board.firstClick)
        \o BoardSerialize(s.board)

\* The files the program can find when it is started for the first time:
\* none; savegame.bin without save.json; save.json holding no JSON document
\* (a session in the binary layout); save.json holding the JSON document {}.
InitialFiles ==
    { NoFiles,
      [NoFiles EXCEPT !["savegame.bin"] = EmptyFile],
      [NoFiles EXCEPT !["savegame.bin"] = EmptyFile,
                      !["save.json"] =
                          BinaryFile(BinarySave(Session(FloatZero, 0, Easy,
                              BoardObject(2, 1, 1, TRUE, NewCells(2, 1)))))],
      [NoFiles EXCEPT !["savegame.bin"] = EmptyFile,
                      !["save.json"] = JsonFile(Text(<<"{", "}">>))] }

\* The program is not running yet.
InitGame ==
    /\ pc = "exited"
    /\ files \in InitialFiles
    /\ saved = NoSave
    /\ board = "nullptr"
    /\ game_over = TRUE
    /\ flagCount = 0
    /\ isLoaded = FALSE
    /\ currentDifficulty = Easy
    /\ difficultyText = "Easy"
    /\ difficulty = 0
    /\ elapsedTime = FloatZero
    /\ width = 0
    /\ height = 0
    /\ mineCount = 0
    /\ firstClick = TRUE
    /\ cells = <<>>
    /\ minesPlaced = 0
    /\ excluded = <<0, 0>>
    /\ stream = <<>>
    /\ target = BoardObject(0, 0, 0, TRUE, <<>>)

NextGame ==
    \/ Main
    \/ \E key \in Keys : KeyPressed(key)
    \/ \E button \in Buttons, p \in Coords(width, height) :
          handleMouseInput(button, p[1], p[2])

\* One run of the program, driven by key and mouse events.
SpecGame == InitGame /\ [][NextGame]_vars

NextSave ==
    \/ Main
    \/ KeyPressed("Enter")
    \/ \E button \in Buttons, p \in Coords(width, height) :
          handleMouseInput(button, p[1], p[2])
    \/ \E elapsed \in ElapsedTimes : Closed(elapsed)

\* The program started, played at the difficulty the menu opens with,
\* closed, and started again, any number of times.
SpecSave == InitGame /\ [][NextSave]_vars

----------------------------------------------------------------------------
(* Board::placeMines, one loop iteration per step *)

\* placeMines(excludedX, excludedY) is entered on the new board.
PlaceMinesEnter(excludedX, excludedY) ==
    /\ pc = "idle"
    /\ firstClick
    /\ pc' = "loop"
    /\ minesPlaced' = 0
    /\ excluded' = <<excludedX, excludedY>>
    /\ UNCHANGED <<boardVars, game_over, flagCount, streamVars, gameVars>>

\* Variant of PlaceMinesDraw that counts every draw.
PlaceMinesDrawCounting(index) ==
    /\ pc = "loop"
    /\ minesPlaced < mineCount
    /\ IF drawAccepted(cells, width, index, excluded[1], excluded[2])
       THEN cells' = placeMineAt(cells, width, height, index)
       ELSE UNCHANGED cells
    /\ minesPlaced' = minesPlaced + 1
    /\ UNCHANGED <<width, height, mineCount, firstClick, game_over, flagCount,
                   pc, excluded, streamVars, gameVars>>

\* One iteration of the while loop, with the index the generator draws.
PlaceMinesDraw(index) ==
    /\ pc = "loop"
    /\ minesPlaced < mineCount
    /\ IF drawAccepted(cells, width, index, excluded[1], excluded[2])
       THEN /\ cells' = placeMineAt(cells, width, height, index)
            /\ minesPlaced' = minesPlaced + 1
       ELSE UNCHANGED <<cells, minesPlaced>>
    /\ UNCHANGED <<width, height, mineCount, firstClick, game_over, flagCount,
                   pc, excluded, streamVars, gameVars>>

\* The loop condition fails and placeMines returns.
PlaceMinesReturn ==
    /\ pc = "loop"
    /\ ~(minesPlaced < mineCount)
    /\ pc' = "returned"
    /\ UNCHANGED <<boardVars, game_over, flagCount, minesPlaced, excluded,
                   streamVars, gameVars>>

NextPlace ==
    \/ \E p \in Coords(width, height) : PlaceMinesEnter(p[1], p[2])
    \/ \E index \in 0..(width * height - 1) : PlaceMinesDraw(index)
    \/ PlaceMinesReturn

SpecPlace == Init /\ [][NextPlace]_vars

\* The loop with a fair generator: an index that stays in the range of
\* dis(gen) and would be taken is drawn in the end, and the loop condition
\* is evaluated.
SpecPlaceFair ==
    /\ SpecPlace
    /\ \A index \in 0..(MaxCells - 1) :
          WF_vars(index < width * height /\ PlaceMinesDraw(index))
    /\ WF_vars(PlaceMinesReturn)

----------------------------------------------------------------------------
(* Board::serialize of the board, and Board::deserialize of what it wrote *)

\* Board::serialize(os) called on the board.
Serialize ==
    /\ pc = "idle"
    /\ stream' = BoardSerialize(TheBoard)
    /\ pc' = "serialized"
    /\ UNCHANGED <<boardVars, game_over, flagCount, minesPlaced, excluded,
                   target, gameVars>>

\* The Board objects deserialize is called on: Board(w, h, m) of each shape.
PriorBoards == { d \in BoardSizes : d[3] = 1 }

\* Board::deserialize(is) called on a new Board(d) over the bytes written.
Deserialize(d) ==
    /\ pc = "serialized"
    /\ target' = BoardDeserialize(
                     BoardObject(d[1], d[2], d[3], TRUE, NewCells(d[1], d[2])),
                     IStream(stream))
    /\ pc' = "deserialized"
    /\ UNCHANGED <<boardVars, game_over, flagCount, minesPlaced, excluded,
                   stream, gameVars>>

NextSerialize ==
    \/ Next
    \/ Serialize
    \/ \E d \in PriorBoards : Deserialize(d)

SpecSerialize == Init /\ [][NextSerialize]_vars

----------------------------------------------------------------------------
(* Consistency of the tabulated placement with the loop *)

\* Every grid the loop returns with is one of the tabulated outcomes.
LoopWithinTable ==
    pc = "returned" =>
        /\ cells \in placeMinesOn(NewCells(width, height), width, height,
                                 mineCount, excluded[1], excluded[2])

----------------------------------------------------------------------------
(* Vocabulary of the properties *)

Positions == (0..(width - 1)) \X (0..(height - 1))

At(cs, p) == cs[p[2]][p[1]]

Abs(n) == IF n < 0 THEN -n ELSE n

\* The up-to-8 cells of the board around p.
NeighboursOf(p) ==
    { q \in Positions : q # p /\ Abs(q[1] - p[1]) <= 1 /\ Abs(q[2] - p[2]) <= 1 }

MineNeighbours(cs, p) == { q \in NeighboursOf(p) : At(cs, q).isMine }

Mines(cs) == { p \in Positions : At(cs, p).isMine }

RevealedCells(cs) == { p \in Positions : At(cs, p).state = "Revealed" }

FlaggedCells(cs) == { p \in Positions : At(cs, p).state = "Flagged" }

OutOfRange(p) == p[1] < 0 \/ p[1] >= width \/ p[2] < 0 \/ p[2] >= height

----------------------------------------------------------------------------
(* C1 *)

\* C1: under the game's input handling, the step in which the first cells
\* of the board become Revealed reveals no mine: the first cell that ever
\* becomes Revealed does not contain a mine.
C1_FirstRevealedIsNoMine ==
    [][ (RevealedCells(cells) = {} /\ RevealedCells(cells') # {})
            => \A p \in RevealedCells(cells') : ~At(cells', p).isMine ]_vars

----------------------------------------------------------------------------
(* C2 *)

\* C2: when placeMines(ex, ey) returns on a new board with (ex, ey) in
\* range, the cell at (ex, ey) holds no mine, whatever was drawn.
C2_PlacementExclusion ==
    (pc = "returned" /\ ~OutOfRange(excluded))
        => ~At(cells, excluded).isMine

\* placeMines has returned with every cell but the excluded one mined.
C2_Witness ==
    /\ pc = "returned"
    /\ ~OutOfRange(excluded)
    /\ mineCount = width * height - 1
    /\ mineCount >= 3
    /\ Cardinality(Mines(cells)) = mineCount

----------------------------------------------------------------------------
(* C3 *)

\* C3: the board holds no mine while firstClick is true and exactly
\* mineCount mines once firstClick is false.
C3_MineCount ==
    Cardinality(Mines(cells)) = IF firstClick THEN 0 ELSE mineCount

\* Mines are placed, and cells were revealed and flagged afterwards.
C3_Witness ==
    /\ ~firstClick
    /\ mineCount >= 2
    /\ Cardinality(Mines(cells)) = mineCount
    /\ RevealedCells(cells) # {}
    /\ FlaggedCells(cells) # {}

----------------------------------------------------------------------------
(* C4 *)

\* C4: when placeMines has returned, every cell without a mine stores in
\* adjacentMines the number of mines among its neighbours, whatever the
\* order of the draws.
C4_AdjacencyCorrect ==
    pc = "returned" =>
        \A p \in Positions :
            ~At(cells, p).isMine =>
                At(cells, p).adjacentMines = Cardinality(MineNeighbours(cells, p))

\* placeMines has returned with a cell that counts two or more mines and
\* with two mines next to each other.
C4_Witness ==
    /\ pc = "returned"
    /\ \E p \in Positions :
          ~At(cells, p).isMine /\ At(cells, p).adjacentMines >= 2
    /\ \E p \in Mines(cells) : MineNeighbours(cells, p) # {}

----------------------------------------------------------------------------
(* C5 *)

\* A cell without a mine whose adjacentMines is 0.
IsZero(cs, p) == ~At(cs, p).isMine /\ At(cs, p).adjacentMines = 0

\* The 8-connected region of zero-adjacency cells around the cells S.
RECURSIVE ZeroRegion(_, _)
ZeroRegion(cs, S) ==
    LET T == S \cup { q \in Positions :
                        IsZero(cs, q) /\ \E c \in S : q \in NeighboursOf(c) }
    IN  IF T = S THEN S ELSE ZeroRegion(cs, T)

\* The numbered cells that border the region R.
NumberedBorder(cs, R) ==
    { q \in Positions \ R :
        /\ ~At(cs, q).isMine
        /\ At(cs, q).adjacentMines > 0
        /\ \E c \in R : q \in NeighboursOf(c) }

\* The cells reached from S by stepping from a zero-adjacency cell to a
\* neighbour that is Hidden in cs.
RECURSIVE HiddenReach(_, _)
HiddenReach(cs, S) ==
    LET T == S \cup { q \in Positions :
                        /\ At(cs, q).state = "Hidden"
                        /\ \E c \in S : IsZero(cs, c) /\ q \in NeighboursOf(c) }
    IN  IF T = S THEN S ELSE HiddenReach(cs, T)

\* The targets of the claim: Hidden zero-adjacency cells after placement.
FloodTargets ==
    IF firstClick THEN {}
    ELSE { t \in Positions : At(cells, t).state = "Hidden" /\ IsZero(cells, t) }

\* C5 as stated: revealCell on a Hidden zero-adjacency cell, after
\* placement, leaves the whole zero-adjacency region of the cell and the
\* numbered cells bordering it Revealed.
C5_FloodFillTotal ==
    \A t \in FloodTargets :
        LET after == revealCell(cells, width, height, t[1], t[2])
            region == ZeroRegion(cells, {t})
        IN  \A p \in region \cup NumberedBorder(cells, region) :
                At(after, p).state = "Revealed"

\* C5 amended: revealCell on a Hidden zero-adjacency cell, after placement,
\* leaves Revealed exactly the cells reached from it through zero-adjacency
\* cells that were Hidden before the call, and leaves every other cell
\* (Flagged cells of the region among them) as it was.
C5_FloodFillReach ==
    \A t \in FloodTargets :
        LET after == revealCell(cells, width, height, t[1], t[2])
            reach == HiddenReach(cells, {t})
        IN  /\ \A p \in reach :
                  At(after, p) = [At(cells, p) EXCEPT !.state = "Revealed"]
            /\ \A p \in Positions \ reach : At(after, p) = At(cells, p)

\* A Hidden zero-adjacency cell whose flood-fill reveals three cells or more
\* while a Flagged cell keeps part of its region or border from it.
C5_Witness ==
    \E t \in FloodTargets :
        LET region == ZeroRegion(cells, {t})
            reach == HiddenReach(cells, {t})
        IN  /\ Cardinality(reach) >= 3
            /\ \E p \in (region \cup NumberedBorder(cells, region)) \ reach :
                  At(cells, p).state = "Flagged"

----------------------------------------------------------------------------
(* C6 *)

\* C6: revealCell on a Flagged or Revealed cell returns the grid it was
\* given, and no step takes a cell from Flagged to Revealed.
C6_FlagProtects ==
    /\ [](\A p \in Positions :
             At(cells, p).state \in {"Flagged", "Revealed"}
                 => revealCell(cells, width, height, p[1], p[2]) = cells)
    /\ [][ \A p \in Positions :
             At(cells, p).state = "Flagged" => At(cells', p).state # "Revealed"
       ]_vars

\* A Flagged zero-adjacency cell that the flood-fill of a Revealed
\* zero-adjacency neighbour has passed by.
C6_Witness ==
    /\ ~firstClick
    /\ \E p \in Positions :
          /\ At(cells, p).state = "Flagged"
          /\ IsZero(cells, p)
          /\ \E q \in NeighboursOf(p) :
                At(cells, q).state = "Revealed" /\ IsZero(cells, q)

----------------------------------------------------------------------------
(* C7 *)

\* C7: flagCell(x, y) with (x, y) in range takes the target from Hidden to
\* Flagged or from Flagged to Hidden, leaves a Revealed target as it is, and
\* changes no other cell's state and no cell's isMine or adjacentMines; no
\* flagCell step changes firstClick, the dimensions or mineCount.
C7_FlagCellFrame ==
    /\ [](\A p \in Positions :
             LET after == flagCell(cells, width, height, p[1], p[2])
             IN  /\ At(after, p).state =
                        CASE At(cells, p).state = "Hidden" -> "Flagged"
                          [] At(cells, p).state = "Flagged" -> "Hidden"
                          [] At(cells, p).state = "Revealed" -> "Revealed"
                 /\ \A q \in Positions \ {p} :
                        At(after, q).state = At(cells, q).state
                 /\ \A q \in Positions :
                        /\ At(after, q).isMine = At(cells, q).isMine
                        /\ At(after, q).adjacentMines = At(cells, q).adjacentMines)
    /\ [][ <<firstClick', width', height', mineCount'>>
               # <<firstClick, width, height, mineCount>>
             => \A p \in Positions : ~FlagCell(p[1], p[2]) ]_vars

\* In the active phase a mine and a cell without a mine are Flagged next to
\* Revealed cells.
C7_Witness ==
    /\ ~firstClick
    /\ \E p \in FlaggedCells(cells) : At(cells, p).isMine
    /\ \E p \in FlaggedCells(cells) : ~At(cells, p).isMine
    /\ RevealedCells(cells) # {}

----------------------------------------------------------------------------
(* C8 *)

Won == checkWinCondition(cells, width, height)

\* C8: checkWinCondition() is true exactly when every cell without a mine
\* is Revealed; once true it stays true; flagCell never changes its value.
C8_WinMonotone ==
    /\ [](Won <=> \A p \in Positions :
                      ~At(cells, p).isMine => At(cells, p).state = "Revealed")
    /\ [][ Won => Won' ]_vars
    /\ [](\A p \in Coords(width, height) :
             checkWinCondition(flagCell(cells, width, height, p[1], p[2]),
                               width, height) <=> Won)

\* A won board with one mine Hidden, another Flagged and none Revealed.
C8_Witness ==
    /\ ~firstClick
    /\ Won
    /\ \E p \in Mines(cells) : At(cells, p).state = "Hidden"
    /\ \E p \in Mines(cells) : At(cells, p).state = "Flagged"
    /\ Mines(cells) \cap RevealedCells(cells) = {}

----------------------------------------------------------------------------
(* C9 *)

Lost == checkLossCondition(cells, width, height)

\* C9: checkLossCondition() is true exactly when some mine is Revealed; it
\* is false while firstClick is true; once true it stays true; and it is
\* true right after a reveal command whose target is a Hidden mine.
C9_LossExact ==
    /\ [](Lost <=> Mines(cells) \cap RevealedCells(cells) # {})
    /\ [](firstClick => ~Lost)
    /\ [][ Lost => Lost' ]_vars
    /\ [](\A p \in Positions :
             (At(cells, p).state = "Hidden" /\ At(cells, p).isMine)
                 => /\ checkLossCondition(
                           revealCell(cells, width, height, p[1], p[2]),
                           width, height)
                    /\ \A g \in firstReveal(cells, width, height, mineCount,
                                            firstClick, p[1], p[2]) :
                           checkLossCondition(g, width, height))

\* A lost board whose first cell is not the Revealed mine, with another
\* mine still Hidden.
C9_Witness ==
    /\ Lost
    /\ ~(At(cells, <<0, 0>>).isMine /\ At(cells, <<0, 0>>).state = "Revealed")
    /\ \E p \in Mines(cells) : At(cells, p).state = "Hidden"
    /\ \E p \in RevealedCells(cells) : ~At(cells, p).isMine

----------------------------------------------------------------------------
(* C10 *)

\* C10: a firstReveal, revealCell or flagCell step with out-of-range
\* coordinates leaves the cells, the dimensions, mineCount and firstClick
\* unchanged.
C10_OutOfRangeIgnored ==
    [][ \A p \in Coords(width, height) :
          ( /\ OutOfRange(p)
            /\ \/ FirstReveal(p[1], p[2])
               \/ RevealCell(p[1], p[2])
               \/ FlagCell(p[1], p[2]) )
              => UNCHANGED boardVars ]_vars

----------------------------------------------------------------------------
(* C11 *)

\* C11: once firstClick is false, firstReveal(x, y) with any coordinates
\* returns, changes no cell's isMine or adjacentMines, and no step sets
\* firstClick again; and firstReveal(x, y) called a second time right after
\* firstReveal(x, y) leaves the grid the first call left.
C11_PlacementOnce ==
    /\ [](~firstClick =>
             \A p \in Coords(width, height) :
                 LET again == firstReveal(cells, width, height, mineCount,
                                          firstClick, p[1], p[2])
                 IN  /\ again # {}
                     /\ \A g \in again : \A q \in Positions :
                            /\ At(g, q).isMine = At(cells, q).isMine
                            /\ At(g, q).adjacentMines = At(cells, q).adjacentMines)
    /\ [][ ~firstClick => ~firstClick' ]_vars
    /\ [](\A p \in Coords(width, height) :
             \A g \in firstReveal(cells, width, height, mineCount,
                                  firstClick, p[1], p[2]) :
                 firstReveal(g, width, height, mineCount, FALSE, p[1], p[2])
                     = {g})

\* Mines are placed, cells are Revealed, and a firstReveal call on a cell
\* that is still Hidden would reveal it.
C11_Witness ==
    /\ ~firstClick
    /\ Cardinality(Mines(cells)) >= 2
    /\ RevealedCells(cells) # {}
    /\ \E p \in Positions :
          /\ At(cells, p).state = "Hidden"
          /\ ~At(cells, p).isMine
          /\ firstReveal(cells, width, height, mineCount, firstClick,
                         p[1], p[2]) # {cells}

----------------------------------------------------------------------------
(* C12 *)

\* C12: Board::deserialize, run on the bytes Board::serialize wrote for the
\* board and on a Board object of any prior width and height, leaves an
\* object with the width, height, mineCount and firstClick of the board and
\* the height-by-width grid of the board's cells.
C12_RoundTrip ==
    pc = "deserialized" => target = TheBoard

\* C12 where it holds: on a Board object whose rows have the width written.
C12_RoundTripSameWidth ==
    (pc = "deserialized" /\ Size(target.cells[0]) = target.width)
        => target = TheBoard

----------------------------------------------------------------------------
(* C13 *)

\* The session of the running Game.
TheSession == Session(elapsedTime, flagCount, difficulty, TheBoard)

\* C13: when the program is started on the files saveGame wrote, loadGame
\* returns into the event loop with the session that was saved: elapsedTime,
\* flagCount, difficulty and a Board equal to the saved one.
C13_SaveLoadFidelity ==
    [][ (pc = "exited" /\ saved.written /\ pc' # "exited")
            => /\ pc' = "idle"
               /\ isLoaded'
               /\ board' = "object"
               /\ TheSession' = saved.session ]_vars

----------------------------------------------------------------------------
(* C14 *)

\* The states in which the process has ended abnormally or will never
\* handle an event again.
Fatal == {"terminated", "crashed", "hung"}

\* C14: when the program is started and save.json does not exist or was
\* not written by saveGame, the event loop is reached with game_over still
\* true and no Board installed; and no start of the program ends in a fatal
\* state.
C14_LoadRecovers ==
    [][ pc = "exited" /\ pc' # "exited"
            => /\ pc' \notin Fatal
               /\ ~saved.written => (game_over' /\ board' = "nullptr") ]_vars

----------------------------------------------------------------------------
(* C15 *)

\* C15: every Board that exists has positive dimensions and
\* 0 < mineCount < width * height.
C15_ValidBoard ==
    board = "object"
        => width > 0 /\ height > 0 /\ 0 < mineCount /\ mineCount < width * height

----------------------------------------------------------------------------
(* C16 *)

\* C16: with a fair generator placeMines returns, for every board with
\* 0 < mineCount < width * height and every excluded coordinate; minesPlaced
\* never exceeds mineCount, and it grows only by one, in a step that puts
\* one mine on a cell that held none and is not the excluded cell.
C16_PlacementTerminates ==
    /\ (pc = "loop") ~> (pc = "returned")
    /\ [](minesPlaced <= mineCount)
    /\ [][ minesPlaced' > minesPlaced
             => /\ minesPlaced' = minesPlaced + 1
                /\ \E p \in Positions \ {excluded} :
                      /\ ~At(cells, p).isMine
                      /\ Mines(cells') = Mines(cells) \cup {p} ]_vars

\* placeMines has returned after mineCount placements on a board with one
\* cell more than mines, with an excluded coordinate out of range.
C16_Witness ==
    /\ pc = "returned"
    /\ minesPlaced = mineCount
    /\ Cardinality(Mines(cells)) = mineCount
    /\ mineCount = width * height - 1
    /\ OutOfRange(excluded)

----------------------------------------------------------------------------
(* C17 *)

\* The sequence s holds no element twice.
NoRepeat(s) == \A i, j \in 1..Len(s) : s[i] = s[j] => i = j

Elements(s) == { s[i] : i \in 1..Len(s) }

\* The grids on which firstReveal(x, y) calls revealCell(x, y): the grid as
\* placeMines leaves it on the first click, the grid itself afterwards.
revealCellGrids(x, y) ==
    IF firstClick
    THEN placeMinesOn(cells, width, height, mineCount, x, y)
    ELSE {cells}

\* C17: no step takes a Revealed cell to Hidden or Flagged; and a
\* revealCell(x, y) call, with the calls it makes on neighbours, takes each
\* cell from Hidden to Revealed at most once, runs the neighbour loops only
\* of cells it took from Hidden to Revealed, and returns after at most
\* width * height such transitions (and one call, plus eight per
\* transition).
C17_RevealedAbsorbing ==
    /\ [][ \A p \in Positions :
             At(cells, p).state = "Revealed" => At(cells', p).state = "Revealed"
       ]_vars
    /\ [](\A t \in Coords(width, height) :
           \A g \in revealCellGrids(t[1], t[2]) :
             LET call == revealCellCall(g, width, height, t[1], t[2])
             IN  /\ call.cells = revealCell(g, width, height, t[1], t[2])
                 /\ NoRepeat(call.revealed)
                 /\ \A p \in Elements(call.revealed) :
                        /\ At(g, p).state = "Hidden"
                        /\ At(call.cells, p).state = "Revealed"
                 /\ NoRepeat(call.expanded)
                 /\ Elements(call.expanded) \subseteq Elements(call.revealed)
                 /\ Len(call.revealed) <= width * height
                 /\ call.calls <= 1 + 8 * Len(call.revealed))

\* With cells already Revealed and a cell Flagged, a revealCell call on a
\* Hidden cell would take three cells or more to Revealed, through calls
\* that find their target Revealed, Flagged or out of range.
C17_Witness ==
    /\ ~firstClick
    /\ RevealedCells(cells) # {}
    /\ FlaggedCells(cells) # {}
    /\ \E t \in Positions :
          LET call == revealCellCall(cells, width, height, t[1], t[2])
          IN  /\ Len(call.revealed) >= 3
              /\ Len(call.expanded) >= 2
              /\ call.calls > 1 + Len(call.revealed)

----------------------------------------------------------------------------
(* C18 *)

\* The grids a left press at (x, y) can leave, as handleMouseInput routes
\* it: firstReveal on the first click, revealCell afterwards.
leftPress(x, y) ==
    IF firstClick
    THEN firstReveal(cells, width, height, mineCount, firstClick, x, y)
    ELSE {revealCell(cells, width, height, x, y)}

\* The cells that are Revealed in the grid after and were not in before.
NewlyRevealed(before, after) == RevealedCells(after) \ RevealedCells(before)

\* C18: while a game is running, a left press at any coordinate t takes a
\* mine to Revealed only if the mine is at t, and then takes no other cell
\* to Revealed; every cell other than t that it takes to Revealed is no
\* mine.  No input step takes two cells to Revealed when one is a mine.
C18_FloodFillExposesNoMine ==
    /\ [](~game_over =>
            \A t \in Coords(width, height) :
                \A after \in leftPress(t[1], t[2]) :
                    LET new == NewlyRevealed(cells, after)
                    IN  /\ \A p \in new \ {t} : ~At(after, p).isMine
                        /\ \A p \in new : At(after, p).isMine => new = {t})
    /\ [][ \A p \in NewlyRevealed(cells, cells') :
              At(cells', p).isMine => NewlyRevealed(cells, cells') = {p} ]_vars

\* A game lost by a press on a mine, after a flood-fill that revealed a
\* zero-adjacency cell and its neighbours next to mines: one mine Revealed,
\* another not.
C18_Witness ==
    /\ game_over
    /\ Cardinality({ p \in RevealedCells(cells) : At(cells, p).isMine }) = 1
    /\ \E p \in Mines(cells) : At(cells, p).state = "Hidden"
    /\ \E p \in RevealedCells(cells) : IsZero(cells, p)
    /\ Cardinality(RevealedCells(cells)) >= 4

----------------------------------------------------------------------------
(* C19 *)

\* C19: in every state of the program in which a board exists (boards come
\* from startGame or loadGame and change through mouse presses only),
\* checkWinCondition() and checkLossCondition() are not both true; and when
\* checkWinCondition() is true, which is what checkGameState tests first,
\* no mine is Revealed.
C19_WinLossExclusive ==
    /\ [](board = "object" =>
            ~(/\ checkWinCondition(cells, width, height)
              /\ checkLossCondition(cells, width, height)))
    /\ [](board = "object" /\ checkWinCondition(cells, width, height) =>
            \A p \in Mines(cells) : At(cells, p).state # "Revealed")

\* A game started from the menu and won by mouse presses, on a board with
\* two mines or more, one of them Flagged.
C19_Witness ==
    /\ board = "object"
    /\ ~isLoaded
    /\ pc = "idle"
    /\ game_over
    /\ ~firstClick
    /\ Cardinality(Mines(cells)) >= 2
    /\ Cardinality(Positions \ Mines(cells)) >= 2
    /\ checkWinCondition(cells, width, height)
    /\ \E p \in Mines(cells) : At(cells, p).state = "Flagged"

----------------------------------------------------------------------------
(* C20 *)

\* C20: a mouse press that Game::handleMouseInput has processed (the only
\* step of a running game that returns to the event loop) leaves game_over
\* true exactly if the board satisfies the win or the loss condition; and
\* from a state with game_over true and a board, a step either leaves every
\* cell, the dimensions, mineCount and firstClick as they are, or it is
\* startGame's: the board is a fresh one (every cell Hidden, no mine, no
\* count, first click pending), game_over is false and flagCount is 0.
C20_GameOverFreezes ==
    /\ [][ (pc = "idle" /\ ~game_over /\ pc' = "idle") =>
              (game_over' <=>
                  \/ checkWinCondition(cells', width', height')
                  \/ checkLossCondition(cells', width', height')) ]_vars
    /\ [][ (pc = "idle" /\ game_over /\ board = "object") =>
              \/ UNCHANGED <<cells, width, height, mineCount, firstClick>>
              \/ /\ board' = "object"
                 /\ ~game_over'
                 /\ firstClick'
                 /\ cells' = NewCells(width', height')
                 /\ flagCount' = 0 ]_vars

\* A lost game whose board still shows the revealed mine after a menu key
\* has moved the selection away from the difficulty played.
C20_Witness ==
    /\ pc = "idle"
    /\ board = "object"
    /\ game_over
    /\ ~isLoaded
    /\ checkLossCondition(cells, width, height)
    /\ Cardinality(RevealedCells(cells)) >= 2
    /\ currentDifficulty # difficulty

----------------------------------------------------------------------------
(* C21 *)

\* The name of each enumerator of Difficulty.
DifficultyName(d) ==
    CASE d = Easy -> "Easy" [] d = Medium -> "Medium" [] d = Hard -> "Hard"
      [] OTHER -> "none"

\* C21: whenever the menu exists, currentDifficulty is Easy, Medium or Hard
\* (a difficulty for which setupBoard assigns width, height and mines) and
\* the label shows the name of that difficulty.
C21_DifficultyValid ==
    pc = "idle" =>
        /\ currentDifficulty \in {Easy, Medium, Hard}
        /\ difficultyText = DifficultyName(currentDifficulty)

\* Supporting: the values the menu does keep.  currentDifficulty is the
\* index of the label in difficultyOptions, which is one less than the
\* enumerator of the difficulty shown, except in the menu as constructed.
C21_IndexNotEnumerator ==
    pc = "idle" =>
        \/ currentDifficulty = Easy /\ difficultyText = "Easy"
        \/ /\ currentDifficulty \in 0..(Len(difficultyOptions) - 1)
           /\ difficultyText = difficultyOptions[currentDifficulty + 1]

----------------------------------------------------------------------------
(* C22 *)

\* A step in which Game::saveGame ran: it opened a file for writing (the
\* files differ) or wrote the session and let main return.
saveGameRan == pc = "idle" /\ (files' # files \/ pc' = "exited")

\* C22: Game::saveGame runs only while board points to a Board.
C22_SaveNeedsBoard == [][ saveGameRan => board = "object" ]_vars

\* Supporting: the only steps in which saveGame runs without a Board are
\* those of a Game whose board is still the nullptr of its constructor; they
\* leave save.json empty and the program dead.
C22_SaveOnNullptr ==
    [][ (saveGameRan /\ board # "object") =>
            /\ board = "nullptr"
            /\ game_over
            /\ files'["save.json"] = EmptyFile
            /\ pc' = "crashed" ]_vars

====
